---- MODULE Spec2Model ----
(***************************************************************************)
(* Model of src/student.py: the observations table (SQLite), the scoring   *)
(* table get_score, the question catalog, and the three Streamlit tabs     *)
(* (live entry, student analysis and management, class analysis).          *)
(*                                                                         *)
(* Text values are TLA+ strings, except student names, which are tuples    *)
(* of one-character strings so that str.strip() can be computed.           *)
(***************************************************************************)
EXTENDS Integers, Sequences, FiniteSets, TLC

(***************************************************************************)
(* Bounds of the model.                                                    *)
(***************************************************************************)
\* rows ever inserted into the table (caps the AUTOINCREMENT counter)
MaxId == 2
\* values of CURRENT_TIMESTAMP
Times == {0, 1}
\* browser sessions of the app
Sessions == {"A", "B"}
NoSelection == 0

(***************************************************************************)
(* 2. SCORING FUNCTION                                                     *)
(***************************************************************************)
\* the dict literal of get_score, in source order (a later pair with the
\* same key replaces an earlier one)
mapping == <<
  <<"Immediately", 5>>, <<"After 1 reminder", 4>>, <<"After several reminders", 3>>, <<"Rarely follows", 2>>, <<"Never follows", 1>>,
  <<"Always waits", 5>>, <<"Usually waits", 4>>, <<"Sometimes waits", 3>>, <<"Rarely waits", 2>>, <<"Never waits", 1>>,
  <<"Independent", 5>>, <<"Mostly independent", 4>>, <<"Sometimes needs help", 3>>, <<"Often loses control", 2>>, <<"Cannot regulate", 1>>,
  <<"Always shares", 5>>, <<"Usually shares", 4>>, <<"Sometimes shares", 3>>, <<"Rarely shares", 2>>, <<"Never shares", 1>>,
  <<"Always respects", 5>>, <<"Mostly respects", 4>>, <<"Sometimes respects", 3>>, <<"Rarely respects", 2>>, <<"Never respects", 1>>,
  <<"Highly focused", 5>>, <<"Mostly focused", 4>>, <<"Sometimes focused", 3>>, <<"Rarely focused", 2>>, <<"Cannot focus", 1>>,
  <<"Eagerly participates", 5>>, <<"Usually participates", 4>>, <<"Sometimes participates", 3>>, <<"Rarely participates", 2>>, <<"Does not participate", 1>>,
  <<"Asks independently", 5>>, <<"Asks after prompt", 4>>, <<"Sometimes asks", 3>>, <<"Rarely asks", 2>>, <<"Never asks", 1>>,
  <<"Completely independent", 5>>, <<"Mostly independent", 4>>, <<"Partially independent", 3>>, <<"Needs guidance", 2>>, <<"Not independent", 1>>,
  <<"Persistent", 5>>, <<"Mostly persistent", 4>>, <<"Sometimes gives up", 3>>, <<"Often gives up", 2>>, <<"Does not try", 1>> >>

MaxOf(S) == CHOOSE x \in S : \A y \in S : y <= x
MinOf(S) == CHOOSE x \in S : \A y \in S : x <= y

\* variant: mapping.get(text, 1)
get_score_default_one(text) ==
  LET hits == {i \in 1..Len(mapping) : mapping[i][1] = text}
  IN  IF hits = {} THEN 1 ELSE mapping[MaxOf(hits)][2]

\* mapping.get(text, 0)
get_score(text) ==
  LET hits == {i \in 1..Len(mapping) : mapping[i][1] = text}
  IN  IF hits = {} THEN 0 ELSE mapping[MaxOf(hits)][2]

(***************************************************************************)
(* 3. CATEGORIES AND QUESTIONS                                             *)
(***************************************************************************)
\* questions.keys(), in insertion order
question_keys == <<"q1_instructions", "q2_turns", "q3_emotions", "q4_sharing",
                   "q5_space", "q6_focus", "q7_joining", "q8_help",
                   "q9_independence", "q10_persistence">>

KeySet == {question_keys[i] : i \in 1..Len(question_keys)}

\* questions[key] = (label, options); the label is cut at its colon
questions ==
  [key \in KeySet |->
     CASE key = "q1_instructions" ->
            <<"Follows Instructions", <<"Immediately", "After 1 reminder", "After several reminders", "Rarely follows", "Never follows">> >>
       [] key = "q2_turns" ->
            <<"Takes Turns", <<"Always waits", "Usually waits", "Sometimes waits", "Rarely waits", "Never waits">> >>
       [] key = "q3_emotions" ->
            <<"Controls Emotions", <<"Independent", "Mostly independent", "Sometimes needs help", "Often loses control", "Cannot regulate">> >>
       [] key = "q4_sharing" ->
            <<"Shares & Cooperates", <<"Always shares", "Usually shares", "Sometimes shares", "Rarely shares", "Never shares">> >>
       [] key = "q5_space" ->
            <<"Maintains Personal Space", <<"Always respects", "Mostly respects", "Sometimes respects", "Rarely respects", "Never respects">> >>
       [] key = "q6_focus" ->
            <<"Focuses on Tasks", <<"Highly focused", "Mostly focused", "Sometimes focused", "Rarely focused", "Cannot focus">> >>
       [] key = "q7_joining" ->
            <<"Joins Activities", <<"Eagerly participates", "Usually participates", "Sometimes participates", "Rarely participates", "Does not participate">> >>
       [] key = "q8_help" ->
            <<"Asks for Help", <<"Asks independently", "Asks after prompt", "Sometimes asks", "Rarely asks", "Never asks">> >>
       [] key = "q9_independence" ->
            <<"Independent Work", <<"Completely independent", "Mostly independent", "Partially independent", "Needs guidance", "Not independent">> >>
       [] key = "q10_persistence" ->
            <<"Keeps Trying", <<"Persistent", "Mostly persistent", "Sometimes gives up", "Often gives up", "Does not try">> >>]

\* the options list of a question
options(key) == questions[key][2]

OptionSet(key) == {options(key)[i] : i \in 1..Len(options(key))}

(***************************************************************************)
(* 1. SETUP & DATABASE                                                     *)
(***************************************************************************)
\* the columns of CREATE TABLE observations
Columns == {"id", "timestamp", "student_name"} \cup KeySet

VARIABLES
  observations,    \* the rows of table observations
  sqlite_sequence, \* AUTOINCREMENT: the largest rowid ever assigned
  now,             \* CURRENT_TIMESTAMP
  live,            \* per session: what the live tab's chart column shows
  selected_id,     \* per session: the observation chosen in the student tab
  default_index,   \* per session: the edit form's default index per question
  edit_responses,  \* per session: the edit form's radio values
  scored           \* the last direct call of get_score: its text and result

vars == <<observations, sqlite_sequence, now, live, selected_id,
          default_index, edit_responses, scored>>

Ids(df) == {r.id : r \in df}
RowOf(df, id) == CHOOSE r \in df : r.id = id

\* the ten rating fields of a row
Ratings(row) == [key \in KeySet |-> row[key]]

\* str.strip(): drop leading and trailing whitespace
Whitespace == {" ", "\t", "\n"}
RECURSIVE lstrip(_)
lstrip(s) == IF s # <<>> /\ Head(s) \in Whitespace THEN lstrip(Tail(s)) ELSE s
RECURSIVE rstrip(_)
rstrip(s) ==
  IF s # <<>> /\ s[Len(s)] \in Whitespace THEN rstrip(SubSeq(s, 1, Len(s) - 1)) ELSE s
\* variant: the name is tested as typed
strip_none(s) == s
strip(s) == rstrip(lstrip(s))

\* variant: id INTEGER PRIMARY KEY without AUTOINCREMENT
NextRowid_table_max(df, seq) == MaxOf({0} \cup Ids(df)) + 1

\* id INTEGER PRIMARY KEY AUTOINCREMENT: one more than the largest rowid
\* ever assigned (kept in sqlite_sequence)
NextRowid(df, seq) == MaxOf({seq} \cup Ids(df)) + 1

\* variant: the stripped name is stored
InsertRow_stripped(df, seq, ts, student_name, responses) ==
  [c \in Columns |->
     CASE c = "id" -> NextRowid(df, seq)
       [] c = "timestamp" -> ts
       [] c = "student_name" -> strip(student_name)
       [] OTHER -> responses[c]]

\* INSERT INTO observations (student_name, q1.., q10) VALUES (...): id and
\* timestamp take their column defaults
InsertRow(df, seq, ts, student_name, responses) ==
  [c \in Columns |->
     CASE c = "id" -> NextRowid(df, seq)
       [] c = "timestamp" -> ts
       [] c = "student_name" -> student_name
       [] OTHER -> responses[c]]

(***************************************************************************)
(* 5. DATABASE MANAGEMENT FUNCTIONS                                        *)
(***************************************************************************)
\* variant: DELETE FROM observations WHERE id <= ?
delete_observation_upto(df, obs_id) == {r \in df : r.id > obs_id}

\* DELETE FROM observations WHERE id = ?
delete_observation(df, obs_id) == {r \in df : r.id # obs_id}

\* variant: UPDATE observations SET ... without the WHERE clause
update_observation_all_rows(df, obs_id, responses) ==
  {[c \in Columns |-> IF c \in DOMAIN responses THEN responses[c] ELSE r[c]] : r \in df}

\* variant: INSERT OR REPLACE in place of UPDATE
update_observation_upsert(df, obs_id, responses) ==
  IF obs_id \in Ids(df)
    THEN {IF r.id = obs_id
            THEN [c \in Columns |-> IF c \in DOMAIN responses THEN responses[c] ELSE r[c]]
            ELSE r : r \in df}
    ELSE df \cup {[c \in Columns |->
                     CASE c = "id" -> obs_id
                       [] c = "timestamp" -> 0
                       [] c = "student_name" -> <<>>
                       [] OTHER -> responses[c]]}

\* UPDATE observations SET <col = ? for col in responses.keys()> WHERE id = ?
update_observation(df, obs_id, responses) ==
  {IF r.id = obs_id
     THEN [c \in Columns |-> IF c \in DOMAIN responses THEN responses[c] ELSE r[c]]
     ELSE r : r \in df}

(***************************************************************************)
(* 6. APP INTERFACE                                                        *)
(***************************************************************************)
\* student_scores = [get_score(row[col]) for col in questions.keys()]
student_scores(row) == [i \in 1..Len(question_keys) |-> get_score(row[question_keys[i]])]

\* options.index(current_value)
index(opts, value) == MinOf({i \in 1..Len(opts) : opts[i] = value}) - 1

\* variant: the stored value is never found among the options
DefaultIndex_first(row) == [key \in KeySet |-> 0]

\* default_index of every radio of the edit form
DefaultIndex(row) ==
  [key \in KeySet |->
     IF row[key] \in OptionSet(key) THEN index(options(key), row[key]) ELSE 0]

\* the value st.radio returns for a 0-based index
RadioValue(key, idx) == options(key)[idx + 1]

NoIndex == [key \in KeySet |-> 0]
NoResponses == [key \in KeySet |-> ""]

\* the observation the two selectboxes show without a choice by the user:
\* the first student of df['student_name'].unique(), and the first row of
\* that student's history sorted by timestamp descending (rows of equal
\* timestamp come in either order)
FirstChoices(df) ==
  LET first == RowOf(df, MinOf(Ids(df)))
      student_history == {r \in df : r.student_name = first.student_name}
  IN  {h.id : h \in {r \in student_history :
                        \A g \in student_history : g.timestamp <= r.timestamp}}

\* the student tab of one script run of session s over a fresh read df:
\* widget state is kept while its observation is still listed
StudentTab(s, df) ==
  IF df = {}
    THEN /\ selected_id' = [selected_id EXCEPT ![s] = NoSelection]
         /\ default_index' = [default_index EXCEPT ![s] = NoIndex]
         /\ edit_responses' = [edit_responses EXCEPT ![s] = NoResponses]
    ELSE \E id \in (IF selected_id[s] \in Ids(df) THEN {selected_id[s]}
                                                 ELSE FirstChoices(df)) :
           LET d == DefaultIndex(RowOf(df, id)) IN
           /\ selected_id' = [selected_id EXCEPT ![s] = id]
           /\ default_index' = [default_index EXCEPT ![s] = d]
           /\ edit_responses' =
                IF id = selected_id[s]
                  THEN edit_responses
                  ELSE [edit_responses EXCEPT
                          ![s] = [key \in KeySet |-> RadioValue(key, d[key])]]

Idle == [msg |-> "info", scores |-> <<>>]

\* live tab, "Save Observation & Show Chart" pressed
SubmitLive(s, student_name, responses) ==
  /\ IF strip(student_name) # <<>>
       THEN /\ sqlite_sequence < MaxId
            /\ LET row == InsertRow(observations, sqlite_sequence, now,
                                    student_name, responses) IN
               /\ observations' = observations \cup {row}
               /\ sqlite_sequence' = row.id
            /\ live' = [live EXCEPT ![s] =
                          [msg |-> "success", scores |-> student_scores(responses)]]
       ELSE /\ UNCHANGED <<observations, sqlite_sequence>>
            /\ live' = [live EXCEPT ![s] = [msg |-> "error", scores |-> <<>>]]
  /\ StudentTab(s, observations')
  /\ UNCHANGED <<now, scored>>

\* student tab: the user picks a student and one of that student's
\* observations (a script run that renders a new edit form)
SelectObservation(s, id) ==
  /\ id \in Ids(observations)
  /\ LET d == DefaultIndex(RowOf(observations, id)) IN
     /\ selected_id' = [selected_id EXCEPT ![s] = id]
     /\ default_index' = [default_index EXCEPT ![s] = d]
     /\ edit_responses' = [edit_responses EXCEPT
                              ![s] = [key \in KeySet |-> RadioValue(key, d[key])]]
  /\ live' = [live EXCEPT ![s] = Idle]
  /\ UNCHANGED <<observations, sqlite_sequence, now, scored>>

\* the user clicks option number i (1-based) of one radio of the edit form
ChangeRadio(s, key, i) ==
  /\ selected_id[s] # NoSelection
  /\ edit_responses[s][key] # options(key)[i]
  /\ edit_responses' = [edit_responses EXCEPT ![s][key] = options(key)[i]]
  /\ UNCHANGED <<observations, sqlite_sequence, now, live, selected_id,
                 default_index, scored>>

\* variant: only the radios moved off their default are written
SaveEdit_changed_only(s) ==
  /\ selected_id[s] # NoSelection
  /\ LET changed == {key \in KeySet :
                       edit_responses[s][key] # RadioValue(key, default_index[s][key])}
     IN  observations' = update_observation(observations, selected_id[s],
                                            [key \in changed |-> edit_responses[s][key]])
  /\ live' = [live EXCEPT ![s] = Idle]
  /\ StudentTab(s, observations')
  /\ UNCHANGED <<sqlite_sequence, now, scored>>

\* student tab, "Save Edited Observation" pressed; st.rerun() runs the
\* script again
SaveEdit(s) ==
  /\ selected_id[s] # NoSelection
  /\ observations' = update_observation(observations, selected_id[s], edit_responses[s])
  /\ live' = [live EXCEPT ![s] = Idle]
  /\ StudentTab(s, observations')
  /\ UNCHANGED <<sqlite_sequence, now, scored>>

\* student tab, "Delete This Observation" pressed; st.stop() ends the run
\* before the edit form is drawn
DeleteClick(s) ==
  /\ selected_id[s] # NoSelection
  /\ observations' = delete_observation(observations, selected_id[s])
  /\ live' = [live EXCEPT ![s] = Idle]
  /\ selected_id' = [selected_id EXCEPT ![s] = NoSelection]
  /\ default_index' = [default_index EXCEPT ![s] = NoIndex]
  /\ edit_responses' = [edit_responses EXCEPT ![s] = NoResponses]
  /\ UNCHANGED <<sqlite_sequence, now, scored>>

\* update_observation called on its own
UpdateCall(obs_id, responses) ==
  /\ observations' = update_observation(observations, obs_id, responses)
  /\ UNCHANGED <<sqlite_sequence, now, live, selected_id, default_index,
                 edit_responses, scored>>

\* delete_observation called on its own
DeleteCall(obs_id) ==
  /\ observations' = delete_observation(observations, obs_id)
  /\ UNCHANGED <<sqlite_sequence, now, live, selected_id, default_index,
                 edit_responses, scored>>

\* time passes
Tick ==
  /\ now + 1 \in Times
  /\ now' = now + 1
  /\ UNCHANGED <<observations, sqlite_sequence, live, selected_id,
                 default_index, edit_responses, scored>>

(***************************************************************************)
(* TAB 3: CLASS ANALYSIS                                                   *)
(***************************************************************************)
\* df[col]: one column of the table as a Series, in rowid order
RECURSIVE Column(_, _)
Column(df, col) ==
  IF df = {} THEN <<>>
  ELSE LET r == RowOf(df, MinOf(Ids(df))) IN <<r[col]>> \o Column(df \ {r}, col)

\* Series.apply(get_score)
apply(series) == [i \in 1..Len(series) |-> get_score(series[i])]

RECURSIVE SumSeq(_)
SumSeq(xs) == IF xs = <<>> THEN 0 ELSE Head(xs) + SumSeq(Tail(xs))

\* Series.mean(), kept as the exact fraction num / den
mean(xs) == [num |-> SumSeq(xs), den |-> Len(xs)]

\* variant: the mean is taken over the first student's rows only
avg_scores_first_student(df) ==
  LET first == RowOf(df, MinOf(Ids(df)))
      history == {r \in df : r.student_name = first.student_name}
  IN  [i \in 1..Len(question_keys) |-> mean(apply(Column(history, question_keys[i])))]

\* avg_scores = [df[col].apply(get_score).mean() for col in questions.keys()]
avg_scores(df) ==
  [i \in 1..Len(question_keys) |-> mean(apply(Column(df, question_keys[i])))]

\* get_score called on its own
GetScoreCall(text) ==
  /\ scored' = [text |-> text, score |-> get_score(text)]
  /\ UNCHANGED <<observations, sqlite_sequence, now, live, selected_id,
                 default_index, edit_responses>>

(***************************************************************************)
(* Inputs                                                                  *)
(***************************************************************************)
\* every option of a question set to position i (1 = best)
Uniform(i) == [key \in KeySet |-> options(key)[i]]
AllBest == Uniform(1)
AllWorst == Uniform(5)
SubmitResponses == {AllBest, AllWorst}
UpdateResponses == {AllBest, AllWorst, Uniform(2)}

BlankNames == {<<>>, <<" ", "\t">>}
StudentNames == {<<"R">>, <<" ", "S", " ">>}

Labels == UNION {OptionSet(key) : key \in KeySet}
\* texts that are no key of the mapping: every label in lower case, every
\* label followed by a space, and a few more
LowerCased == {
  "immediately", "after 1 reminder", "after several reminders",
  "rarely follows", "never follows", "always waits", "usually waits",
  "sometimes waits", "rarely waits", "never waits", "independent",
  "mostly independent", "sometimes needs help", "often loses control",
  "cannot regulate", "always shares", "usually shares", "sometimes shares",
  "rarely shares", "never shares", "always respects", "mostly respects",
  "sometimes respects", "rarely respects", "never respects",
  "highly focused", "mostly focused", "sometimes focused", "rarely focused",
  "cannot focus", "eagerly participates", "usually participates",
  "sometimes participates", "rarely participates", "does not participate",
  "asks independently", "asks after prompt", "sometimes asks", "rarely asks",
  "never asks", "completely independent", "partially independent",
  "needs guidance", "not independent", "persistent", "mostly persistent",
  "sometimes gives up", "often gives up", "does not try" }
Padded == {
  "Immediately ", "After 1 reminder ", "After several reminders ",
  "Rarely follows ", "Never follows ", "Always waits ", "Usually waits ",
  "Sometimes waits ", "Rarely waits ", "Never waits ", "Independent ",
  "Mostly independent ", "Sometimes needs help ", "Often loses control ",
  "Cannot regulate ", "Always shares ", "Usually shares ",
  "Sometimes shares ", "Rarely shares ", "Never shares ", "Always respects ",
  "Mostly respects ", "Sometimes respects ", "Rarely respects ",
  "Never respects ", "Highly focused ", "Mostly focused ",
  "Sometimes focused ", "Rarely focused ", "Cannot focus ",
  "Eagerly participates ", "Usually participates ",
  "Sometimes participates ", "Rarely participates ", "Does not participate ",
  "Asks independently ", "Asks after prompt ", "Sometimes asks ",
  "Rarely asks ", "Never asks ", "Completely independent ",
  "Partially independent ", "Needs guidance ", "Not independent ",
  "Persistent ", "Mostly persistent ", "Sometimes gives up ",
  "Often gives up ", "Does not try " }
OtherTexts == LowerCased \cup Padded \cup {"", "5", "N/A"}
Texts == Labels \cup OtherTexts

\* radios and positions the user changes in the edit form
EditKeys == {"q3_emotions", "q9_independence"}
EditPositions == {1, 2, 5}

(***************************************************************************)
(* Specifications                                                          *)
(***************************************************************************)
Init ==
  /\ observations = {}
  /\ sqlite_sequence = 0
  /\ now = 0
  /\ live = [s \in Sessions |-> Idle]
  /\ selected_id = [s \in Sessions |-> NoSelection]
  /\ default_index = [s \in Sessions |-> NoIndex]
  /\ edit_responses = [s \in Sessions |-> NoResponses]
  /\ scored = [text |-> "", score |-> 0]

\* the store driven by one session's submits and by direct calls of the
\* two database functions
Next ==
  \/ Tick
  \/ \E n \in BlankNames \cup StudentNames, r \in SubmitResponses : SubmitLive("A", n, r)
  \/ \E id \in 1..(MaxId + 1), r \in UpdateResponses : UpdateCall(id, r)
  \/ \E id \in 1..(MaxId + 1) : DeleteCall(id)

Spec == Init /\ [][Next]_vars

\* the app opened in two browser sessions on a database file that already
\* holds one observation
InitUI ==
  /\ \E r \in {AllBest, AllWorst} :
       observations = {InsertRow({}, 0, 0, <<"R">>, r)}
  /\ sqlite_sequence = 1
  /\ now = 0
  /\ live = [s \in Sessions |-> Idle]
  /\ selected_id = [s \in Sessions |-> 1]
  /\ default_index = [s \in Sessions |-> DefaultIndex(RowOf(observations, 1))]
  /\ edit_responses =
       [s \in Sessions |->
          [key \in KeySet |-> RadioValue(key, default_index[s][key])]]
  /\ scored = [text |-> "", score |-> 0]

NextUI ==
  \/ \E s \in Sessions, id \in 1..MaxId : SelectObservation(s, id)
  \/ \E s \in Sessions, key \in EditKeys, i \in EditPositions : ChangeRadio(s, key, i)
  \/ \E s \in Sessions : SaveEdit(s)
  \/ \E s \in Sessions : DeleteClick(s)

SpecUI == InitUI /\ [][NextUI]_vars

\* the app used from one browser session
NextSeq ==
  \/ \E n \in {<<>>, <<"R">>}, r \in {AllBest, AllWorst} : SubmitLive("A", n, r)
  \/ \E id \in 1..MaxId : SelectObservation("A", id)
  \/ \E i \in 1..Len(options("q9_independence")) : ChangeRadio("A", "q9_independence", i)
  \/ SaveEdit("A")
  \/ DeleteClick("A")

SpecSeq == Init /\ [][NextSeq]_vars

\* get_score called with any text
NextScore == \E text \in Texts : GetScoreCall(text)

SpecScore == Init /\ [][NextScore]_vars

(***************************************************************************)
(* Properties                                                              *)
(***************************************************************************)
AllNames == BlankNames \cup StudentNames
\* the names that are empty or all whitespace, and the others
WhitespaceOnly == {n \in AllNames : \A i \in 1..Len(n) : n[i] \in Whitespace}
NotBlank == {n \in AllNames : \E i \in 1..Len(n) : n[i] \notin Whitespace}
CallIds == 1..(MaxId + 1)

\* C1: update_observation on an existing id makes that row's ten rating
\* fields equal to the given values, keeps its id, student_name and
\* timestamp, and changes no other row.
C1_UpdateOverwritesRatings ==
  [][\A id \in CallIds, r \in UpdateResponses :
       (UpdateCall(id, r) /\ id \in Ids(observations)) =>
         LET old == RowOf(observations, id) IN
         /\ Ids(observations') = Ids(observations)
         /\ Cardinality(observations') = Cardinality(observations)
         /\ \E new \in observations' :
              /\ new.id = id
              /\ Ratings(new) = r
              /\ new.student_name = old.student_name
              /\ new.timestamp = old.timestamp
         /\ \A o \in observations : o.id # id => o \in observations']_vars

\* an updated row next to an untouched one: the last inserted row no longer
\* has the ratings the live tab charted at its insert
C1_Witness ==
  /\ live["A"].msg = "success"
  /\ Cardinality(observations) = 2
  /\ \E r \in observations :
       /\ r.id = sqlite_sequence
       /\ student_scores(r) # live["A"].scores

\* C2: a submit with a non-blank name adds exactly one row, with an id
\* that was not in the table, the submitted name and the submitted ratings;
\* the rows stored before are unchanged, and the student tab's read in the
\* same run sees the new row.
C2_SubmitInsertsOneRecord ==
  [][\A n \in NotBlank, r \in SubmitResponses :
       SubmitLive("A", n, r) =>
         /\ observations \subseteq observations'
         /\ \E new \in observations' :
              /\ observations' \ observations = {new}
              /\ new.id \notin Ids(observations)
              /\ new.student_name = n
              /\ Ratings(new) = r
              /\ observations = {} => selected_id'["A"] = new.id
         /\ selected_id'["A"] \in Ids(observations')]_vars

\* a row stored under a name typed with surrounding blanks
C2_Witness ==
  /\ live["A"].msg = "success"
  /\ \E r \in observations :
       /\ r.student_name = <<" ", "S", " ">>
       /\ student_scores(r) = live["A"].scores

\* C3: delete_observation removes the row with the given id and no other
\* row; with an id that is not in the table it changes nothing.
C3_DeleteRemovesOnlyThatRecord ==
  [][\A id \in CallIds :
       DeleteCall(id) =>
         /\ id \notin Ids(observations')
         /\ observations' \subseteq observations
         /\ \A o \in observations : o.id # id => o \in observations'
         /\ id \notin Ids(observations) => observations' = observations]_vars

\* row 1 was deleted and row 2 is still stored
C3_Witness == sqlite_sequence >= 2 /\ 1 \notin Ids(observations) /\ 2 \in Ids(observations)

\* C4: ids are unique, and every insert takes an id greater than every id
\* assigned before: the largest id ever assigned never decreases, bounds
\* every stored id, and is exceeded by the id of every new row.
C4_IdsNeverReused ==
  [][/\ sqlite_sequence' >= sqlite_sequence
     /\ \A r \in observations : r.id <= sqlite_sequence
     /\ \A r \in observations' : r.id <= sqlite_sequence'
     /\ Cardinality(Ids(observations')) = Cardinality(observations')
     /\ \A r \in observations' :
          r.id \notin Ids(observations) =>
            /\ r.id > sqlite_sequence
            /\ \A o \in observations : r.id > o.id]_vars

\* row 1 was deleted (the table was then empty) and the next insert took 2
C4_Witness == sqlite_sequence = 2 /\ Ids(observations) = {2}

\* C5: the label at 0-based position i of every question scores 5 - i,
\* and every text that is no key of the mapping scores 0.
C5_ScoreTable ==
  LET MappingKeys == {mapping[i][1] : i \in 1..Len(mapping)} IN
  /\ \A key \in KeySet :
       /\ Len(options(key)) = 5
       /\ \A i \in 0..4 : get_score(options(key)[i + 1]) = 5 - i
  /\ \A key \in KeySet, i \in 0..4 :
       scored.text = options(key)[i + 1] => scored.score = 5 - i
  /\ scored.text \notin MappingKeys => scored.score = 0
  /\ \A text \in OtherTexts : text \notin MappingKeys /\ get_score(text) = 0

\* the label shared by q3_emotions and q9_independence was scored
C5_Witness ==
  /\ scored.text = "Mostly independent"
  /\ scored.text = options("q3_emotions")[2]
  /\ scored.text = options("q9_independence")[2]
  /\ scored.score = 4

\* C6: a submit with an empty or all-whitespace name stores nothing and
\* shows the error message and no chart.
C6_BlankNameRejected ==
  [][\A n \in WhitespaceOnly, r \in SubmitResponses :
       SubmitLive("A", n, r) =>
         /\ observations' = observations
         /\ sqlite_sequence' = sqlite_sequence
         /\ live'["A"].msg = "error"
         /\ live'["A"].scores = <<>>]_vars

\* the error is on screen over a table that holds a row
C6_Witness == live["A"].msg = "error" /\ observations # {}

\* C7: update_observation with an id that is not in the table (never
\* assigned, or deleted) changes nothing.
C7_UpdateMissingIdNoOp ==
  [][\A id \in CallIds, r \in UpdateResponses :
       (UpdateCall(id, r) /\ id \notin Ids(observations)) =>
         observations' = observations]_vars

\* id 1 is deleted, id 3 or above was never assigned, and a row is stored
C7_Witness ==
  /\ sqlite_sequence = 2
  /\ Ids(observations) = {2}
  /\ \E id \in CallIds : id > sqlite_sequence

\* C8: over a non-empty table the class aggregate has, for each of the ten
\* questions in catalog order, the mean of the scores of that column over
\* all rows; one row gives that row's score vector, one all-best and one
\* all-worst row give 3 everywhere.
C8_ClassAggregateIsMean ==
  observations # {} =>
    LET avg == avg_scores(observations)
        n == Cardinality(observations)
        count(key, v) == Cardinality({r \in observations : get_score(r[key]) = v})
    IN
    /\ Len(avg) = 10
    /\ \A i \in 1..10 :
         LET key == question_keys[i] IN
         /\ avg[i].den = n
         /\ avg[i].num = count(key, 1) + 2 * count(key, 2) + 3 * count(key, 3)
                         + 4 * count(key, 4) + 5 * count(key, 5)
         /\ \A r \in observations :
              observations = {r} => avg[i].num = student_scores(r)[i] * avg[i].den
         /\ (n = 2 /\ {Ratings(r) : r \in observations} = {AllBest, AllWorst})
              => avg[i].num = 3 * avg[i].den

\* one all-best and one all-worst row of two different students
C8_Witness ==
  /\ Cardinality(observations) = 2
  /\ {Ratings(r) : r \in observations} = {AllBest, AllWorst}
  /\ Cardinality({r.student_name : r \in observations}) = 2
  /\ \A i \in 1..10 : avg_scores(observations)[i] = [num |-> 6, den |-> 2]

C10_StoredLabelsValid ==
  /\ [](/\ \A r \in observations :
             /\ \A key \in KeySet : r[key] \in OptionSet(key)
             /\ \A i \in 1..10 : student_scores(r)[i] \in 1..5
        /\ selected_id["A"] # NoSelection =>
             /\ selected_id["A"] \in Ids(observations)
             /\ \A key \in KeySet :
                  RadioValue(key, default_index["A"][key])
                    = RowOf(observations, selected_id["A"])[key])
  /\ [][(/\ SaveEdit("A")
         /\ \A key \in KeySet :
              edit_responses["A"][key] = RadioValue(key, default_index["A"][key]))
        => observations' = observations]_vars

\* an edited row is selected and its form shows the stored labels
C10_Witness ==
  /\ selected_id["A"] # NoSelection
  /\ \E r \in observations :
       /\ r.id = selected_id["A"]
       /\ Ratings(r) = edit_responses["A"]
       /\ r["q9_independence"] = "Mostly independent"
       /\ r["q3_emotions"] = "Cannot regulate"

====
